---- MODULE Spec2Model ----
(***************************************************************************)
(* The "ewouldblock_engine" of memcached                                   *)
(* (engines/ewouldblock_engine/ewouldblock_engine.cc).                     *)
(*                                                                         *)
(* The engine proxies a real engine and, depending on its mode, answers an *)
(* interposed call with EWOULDBLOCK instead of forwarding it.  A cookie    *)
(* answered with EWOULDBLOCK is pushed on the file-static pending_io_ops   *)
(* queue; one notifier thread per engine instance waits on the file-static *)
(* condition variable and calls notify_io_complete for the queue's head.   *)
(*                                                                         *)
(* Threads of the model: the worker threads (callers of the engine         *)
(* functions), one notifier thread per instance, and the thread that       *)
(* destroys an instance.  Every access to memory that the code leaves      *)
(* unsynchronised (mode, value, prev_cmd) is a step of its own.            *)
(***************************************************************************)
EXTENDS Integers, Sequences, FiniteSets, TLC

\* ------------------------------------------------------------------ bounds
NumEngines == 2
NumWorkers == 2
\* pending_io_ops is unbounded; calls are not started beyond this many
\* queued-or-in-flight entries.
MaxQueue == 2
\* largest value a control packet of the concurrent specifications carries
MaxN == 2
\* largest interface version passed to create_instance
MaxIface == 2
\* largest mode number a control packet carries (0..2 are the modes)
MaxWire == 3
\* NEXT_N answers counted beyond the selected N before calls stop being issued
MaxOver == 2

Engines == 1..NumEngines
Workers == 1..NumWorkers

\* ------------------------------------------------------- program constants
\* std::uniform_int_distribution<uint32_t> dis(1, 100)
DrawLo == 1
DrawHi == 100
Draws == DrawLo..DrawHi
\* PROTOCOL_BINARY_CMD_EWOULDBLOCK_CTL
PROTOCOL_BINARY_CMD_EWOULDBLOCK_CTL == 235
\* create_instance: the one interface version supported
InterfaceV1 == 1

\* (mutant of ModeOfWire: the switch has no default, a number that is no mode
\* is taken as FIRST)
ModeOfWire_NoDefault(n) ==
    CASE n = 0 -> "NEXT_N"
      [] n = 1 -> "RANDOM"
      [] OTHER -> "FIRST"

\* enum class Mode { NEXT_N, RANDOM, FIRST }: the wire value of each mode, as
\* static_cast<Mode>(ntohl(req->message.body.mode)) reads it.
ModeOfWire(n) ==
    CASE n = 0 -> "NEXT_N"
      [] n = 1 -> "RANDOM"
      [] n = 2 -> "FIRST"
      [] OTHER -> "INVALID"

\* enum class Cmd: the commands should_return_EWOULDBLOCK is called with
InterposedCmds == {"ALLOCATE", "REMOVE", "GET", "STORE", "ARITHMETIC", "GET_STATS", "UNKNOWN_COMMAND"}

\* uint32_t value.  A value is held as its representative modulo 2^32 in
\* (-2^31, 2^31): v < 0 stands for the stored number 2^32 + v (so -1 is
\* 4294967295, what 0 - 1 wraps to).
DecU32(v) == v - 1
\* (mutant of PositiveU32: the test of value is dropped)
PositiveU32_Always(v) == TRUE
\* value > 0 on a uint32_t: every stored number but 0
PositiveU32(v) == v # 0
\* a < b on uint32_t, for a draw a in 1..100
LessU32(a, b) == b < 0 \/ a < b

VARIABLES
    estate,     \* per instance slot: lifecycle of the EWB_Engine object
    mode,       \* EWB_Engine::mode
    value,      \* EWB_Engine::value
    npc,        \* per instance: position of its notification_thread
    mutex,      \* static std::mutex: 0 free, e held by the notifier of e
    stop,       \* stop_notification_thread
    queue,      \* static pending_io_ops
    prev_cmd,   \* static Cmd prev_cmd of should_return_EWOULDBLOCK
    wk,         \* per worker thread: its position in the engine call it makes
    real,       \* per instance: the real engine's store (one key: item present)
    aborted,    \* abort() was called
    out,        \* history, per cookie: EWOULDBLOCK enqueues minus notify_io_complete calls
    quota,      \* history, per instance: N of the last NEXT_N control minus EWOULDBLOCK answers since
    lastFn,     \* history, per instance: the engine function called last
    owed,       \* history, per instance: queue entries present when destroy began, not yet notified
    rebound,    \* per instance: item_set_cas, get_item_info, set_item_info, get_stats_struct
                \* and dcp of the handle point to the real engine's functions
    seen        \* history: the instance of the function that returned last (lastEng), and per
                \* instance the interface last passed to create_instance (iface), what
                \* initialize met in the real engine (init), the mode number of the last
                \* control packet (ctl), the cookies answered with EWOULDBLOCK and not yet
                \* notified, in the order of their enqueues (pend), and whether the last
                \* queue operation was a notification made while a different cookie
                \* was pending too (withOther)

vars == <<estate, mode, value, npc, mutex, stop, queue, prev_cmd, wk, real, aborted, out, quota, lastFn, owed, rebound, seen>>

engVars == <<estate, mode, value, real, rebound>>
syncVars == <<npc, mutex, stop, queue>>
histVars == <<out, quota, lastFn, owed, seen>>

\* --------------------------------------------------------------- helpers
IdleW(res) == [pc |-> "idle", eng |-> 0, cmd |-> "NONE", tmp |-> 0, nfy |-> FALSE, res |-> res]

InCall(w) == wk[w].pc \notin {"idle", "blocked"}
Busy(e) == \E w \in Workers : InCall(w) /\ wk[w].eng = e
NoneInCall == \A w \in Workers : ~InCall(w)
InFlight == Cardinality({w \in Workers : InCall(w)})
Usable(e) == estate[e] = "live"

Count(c, q) == Cardinality({i \in 1..Len(q) : q[i] = c})

\* s without its first occurrence of c (s itself if c does not occur)
RemoveFirst(c, s) ==
    IF \E i \in 1..Len(s) : s[i] = c
    THEN LET k == CHOOSE i \in 1..Len(s) : s[i] = c /\ \A j \in 1..(i - 1) : s[j] # c
         IN [i \in 1..(Len(s) - 1) |-> IF i < k THEN s[i] ELSE s[i + 1]]
    ELSE s

\* ------------------------------------------------------------------ Init
\* Process start: no instance exists; the statics are zero-initialised
\* (stop_notification_thread false, prev_cmd = Cmd::NONE, the queue empty).
Init ==
    /\ estate = [e \in Engines |-> "none"]
    /\ mode = [e \in Engines |-> "FIRST"]
    /\ value = [e \in Engines |-> 0]
    /\ npc = [e \in Engines |-> "none"]
    /\ mutex = 0
    /\ stop = FALSE
    /\ queue = << >>
    /\ prev_cmd = "NONE"
    /\ wk = [w \in Workers |-> IdleW("NONE")]
    /\ real = [e \in Engines |-> FALSE]
    /\ aborted = FALSE
    /\ out = [w \in Workers |-> 0]
    /\ quota = [e \in Engines |-> 0]
    /\ lastFn = [e \in Engines |-> "NONE"]
    /\ owed = [e \in Engines |-> 0]
    /\ rebound = [e \in Engines |-> FALSE]
    /\ seen = [lastEng |-> 0,
               iface |-> [e \in Engines |-> 0 - 1],
               init |-> [e \in Engines |-> "NONE"],
               ctl |-> [e \in Engines |-> 0 - 1],
               pend |-> << >>,
               withOther |-> FALSE]

\* -------------------------------------------------------------- lifecycle
\* (mutant of SupportedInterface: the interface version is not checked)
SupportedInterface_Any(iface) == TRUE
\* create_instance: if (interface != 1) return ENGINE_ENOTSUP
SupportedInterface(iface) == iface = InterfaceV1

\* create_instance(interface, gsa, handle)
create_instance(e, iface) ==
    /\ ~aborted
    /\ estate[e] \in {"none", "enotsup"}
    /\ IF ~SupportedInterface(iface)
       THEN /\ estate' = [estate EXCEPT ![e] = "enotsup"]
            /\ UNCHANGED <<mode, value, npc, rebound>>
       ELSE \* new EWB_Engine(gsa): mode(FIRST), value(0), notification_thread
            \* started; the handle's entries are the engine's own functions
            /\ estate' = [estate EXCEPT ![e] = "created"]
            /\ mode' = [mode EXCEPT ![e] = "FIRST"]
            /\ value' = [value EXCEPT ![e] = 0]
            /\ npc' = [npc EXCEPT ![e] = "start"]
            /\ rebound' = [rebound EXCEPT ![e] = FALSE]
    /\ seen' = [seen EXCEPT !.iface[e] = iface]
    /\ UNCHANGED <<mutex, stop, queue, prev_cmd, wk, real, aborted, out, quota, lastFn, owed>>

\* (mutant of FatalOutcomes: the real engine's interface version is not checked)
FatalOutcomes_NoInterfaceCheck == {"load_fail", "create_fail"}
\* EWB_Engine::initialize: what ends in abort(): load_engine failed,
\* create_engine_instance failed, real_handle->interface != 1
FatalOutcomes == {"load_fail", "create_fail", "bad_interface"}
\* what initialize can meet: the three above, the real engine's initialize
\* returning an error, or ENGINE_SUCCESS
InitOutcomes == {"load_fail", "create_fail", "bad_interface", "init_error", "ok"}

\* EWB_Engine::initialize: load, instantiate and initialize the real engine
initialize(e, outcome) ==
    /\ ~aborted
    /\ estate[e] = "created"
    /\ CASE outcome \in FatalOutcomes ->
              /\ aborted' = TRUE
              /\ UNCHANGED <<estate, rebound>>
         [] outcome = "init_error" ->
              \* res != ENGINE_SUCCESS: returned as it is, nothing rebound
              /\ estate' = [estate EXCEPT ![e] = "initfail"]
              /\ UNCHANGED <<aborted, rebound>>
         [] OTHER ->
              \* res == ENGINE_SUCCESS: the five entries are rebound
              /\ estate' = [estate EXCEPT ![e] = "live"]
              /\ rebound' = [rebound EXCEPT ![e] = TRUE]
              /\ UNCHANGED aborted
    /\ lastFn' = [lastFn EXCEPT ![e] = "INITIALIZE"]
    /\ seen' = [seen EXCEPT !.init[e] = outcome, !.lastEng = e]
    /\ UNCHANGED <<mode, value, real, syncVars, prev_cmd, wk, out, quota, owed>>

\* EWB_Engine::destroy up to the destructor's first statement:
\* real_engine->destroy(...); delete ewb -> stop_notification_thread = true
destroy(e) ==
    /\ ~aborted
    /\ estate[e] \in {"live", "initfail"}
    /\ ~Busy(e)
    /\ estate' = [estate EXCEPT ![e] = "d_notify"]
    /\ real' = [real EXCEPT ![e] = FALSE]
    /\ stop' = TRUE
    /\ owed' = [owed EXCEPT ![e] = Len(queue)]
    /\ lastFn' = [lastFn EXCEPT ![e] = "DESTROY"]
    /\ seen' = [seen EXCEPT !.lastEng = e]
    /\ UNCHANGED <<mode, value, rebound, npc, mutex, queue, prev_cmd, wk, aborted, out, quota>>

\* ~EWB_Engine: condvar.notify_all()
dtor_notify_all(e) ==
    /\ ~aborted
    /\ estate[e] = "d_notify"
    /\ estate' = [estate EXCEPT ![e] = "d_join"]
    /\ npc' = [x \in Engines |-> IF npc[x] = "waiting" THEN "woken" ELSE npc[x]]
    /\ UNCHANGED <<mode, value, real, rebound, mutex, stop, queue, prev_cmd, wk, aborted, histVars>>

\* ~EWB_Engine: notification_thread.join() returns once the thread has ended
dtor_join(e) ==
    /\ ~aborted
    /\ estate[e] = "d_join"
    /\ npc[e] = "done"
    /\ estate' = [estate EXCEPT ![e] = "dead"]
    /\ UNCHANGED <<mode, value, real, rebound, syncVars, prev_cmd, wk, aborted, histVars>>

\* ------------------------------------------------------- notifier thread
\* process_pending_queue: std::unique_lock<std::mutex> lk(mutex)
notifier_lock(e) ==
    /\ ~aborted
    /\ npc[e] = "start"
    /\ mutex = 0
    /\ mutex' = e
    /\ npc' = [npc EXCEPT ![e] = "test"]
    /\ UNCHANGED <<engVars, stop, queue, prev_cmd, wk, aborted, histVars>>

\* while (!stop_notification_thread): the test; leaving the loop ends the
\* thread and releases lk
notifier_test(e) ==
    /\ ~aborted
    /\ npc[e] = "test"
    /\ IF stop
       THEN /\ npc' = [npc EXCEPT ![e] = "done"]
            /\ mutex' = 0
       ELSE /\ npc' = [npc EXCEPT ![e] = "towait"]
            /\ UNCHANGED mutex
    /\ UNCHANGED <<engVars, stop, queue, prev_cmd, wk, aborted, histVars>>

\* condvar.wait(lk): release the mutex and block, atomically
notifier_wait(e) ==
    /\ ~aborted
    /\ npc[e] = "towait"
    /\ npc' = [npc EXCEPT ![e] = "waiting"]
    /\ mutex' = 0
    /\ UNCHANGED <<engVars, stop, queue, prev_cmd, wk, aborted, histVars>>

\* condvar.wait may return without a notify (spurious wakeup)
spurious_wakeup(e) ==
    /\ ~aborted
    /\ npc[e] = "waiting"
    /\ npc' = [npc EXCEPT ![e] = "woken"]
    /\ UNCHANGED <<engVars, mutex, stop, queue, prev_cmd, wk, aborted, histVars>>

\* (mutant of NotifiedCookie: the newest entry is notified)
NotifiedCookie_Back(q) == q[Len(q)]
\* the cookie handed to notify_io_complete: pending_io_ops.front()
NotifiedCookie(q) == Head(q)
\* (mutant of AfterPop: the notified entry is left in the queue)
AfterPop_NoPop(q) == q
\* pending_io_ops.pop()
AfterPop(q) == Tail(q)
\* server->cookie->notify_io_complete(cookie, ENGINE_SUCCESS), as the caller
\* sees it: a connection that is in a call or suspended on it is marked as
\* notified; one with no request in progress drops the notification.
NotifyIoComplete(w, c) ==
    IF w = c /\ wk[w].pc # "idle" THEN [wk[w] EXCEPT !.nfy = TRUE] ELSE wk[w]

\* wait returns (the mutex is re-acquired) and, still under the mutex, the
\* head of the queue is notified and popped
notifier_process(e) ==
    /\ ~aborted
    /\ npc[e] = "woken"
    /\ mutex = 0
    /\ mutex' = e
    /\ npc' = [npc EXCEPT ![e] = "test"]
    /\ IF queue # << >>
       THEN LET c == NotifiedCookie(queue) IN
            /\ wk' = [w \in Workers |-> NotifyIoComplete(w, c)]
            /\ out' = [out EXCEPT ![c] = @ - 1]
            /\ queue' = AfterPop(queue)
            /\ owed' = [x \in Engines |-> IF owed[x] > 0 THEN owed[x] - 1 ELSE 0]
            /\ seen' = [seen EXCEPT !.pend = RemoveFirst(c, @),
                                    !.withOther = \E i \in 1..Len(seen.pend) :
                                                     seen.pend[i] # c]
       ELSE UNCHANGED <<wk, out, queue, owed, seen>>
    /\ UNCHANGED <<engVars, stop, prev_cmd, aborted, quota, lastFn>>

\* ------------------------------------------------------ the real engine
\* The engine proxied (default_engine), reduced to one key: whether its item
\* is stored.  The status a forwarded call returns, and the store after it.
RealResult(cmd, present) ==
    CASE cmd \in {"GET", "REMOVE", "ARITHMETIC"} -> (IF present THEN "SUCCESS" ELSE "KEY_ENOENT")
      [] cmd = "UNKNOWN_COMMAND" -> "ENOTSUP"
      [] cmd \in {"RELEASE", "RESET_STATS"} -> "NONE"
      [] cmd = "GET_INFO" -> "REAL_INFO"
      [] OTHER -> "SUCCESS"
RealAfter(cmd, present) ==
    CASE cmd = "STORE" -> TRUE
      [] cmd \in {"REMOVE", "FLUSH"} -> FALSE
      [] OTHER -> present

\* ----------------------------------------------------------- worker calls
\* Calls are issued on an initialized instance that is not being destroyed.
\* The two bounds: queue entries, and NEXT_N answers beyond the selected N.
CanIssue(e) == Usable(e) /\ quota[e] > 0 - MaxOver
CanStart(e) == CanIssue(e) /\ Len(queue) + InFlight < MaxQueue

\* switch (mode) of should_return_EWOULDBLOCK: the case taken
ModePc(m) ==
    CASE m = "NEXT_N" -> "n_test"
      [] m = "RANDOM" -> "r_draw"
      [] OTHER -> "f_read"

\* Entry of allocate / remove / get / store / arithmetic / get_stats /
\* unknown_command (not the control opcode): should_return_EWOULDBLOCK(cmd,
\* cookie) is called and reads mode.  The cookie of worker w is w.
EnterInterposed(w, e, cmd) ==
    /\ wk' = [wk EXCEPT ![w] = [pc |-> ModePc(mode[e]), eng |-> e, cmd |-> cmd,
                                tmp |-> 0, nfy |-> FALSE, res |-> "NONE"]]
    /\ UNCHANGED <<engVars, syncVars, prev_cmd, aborted, histVars>>

\* a new request of the connection served by w
interposed_call(w, e, cmd) ==
    /\ ~aborted
    /\ wk[w].pc = "idle"
    /\ CanStart(e)
    /\ EnterInterposed(w, e, cmd)

\* the connection was notified: the suspended request is issued again
retry_call(w) ==
    /\ ~aborted
    /\ wk[w].pc = "blocked"
    /\ wk[w].nfy
    /\ CanIssue(wk[w].eng)
    /\ EnterInterposed(w, wk[w].eng, wk[w].cmd)

\* the caller gives up a suspended request (the connection is closed)
abandon(w) ==
    /\ ~aborted
    /\ wk[w].pc = "blocked"
    /\ wk' = [wk EXCEPT ![w] = IdleW("NONE")]
    /\ UNCHANGED <<engVars, syncVars, prev_cmd, aborted, histVars>>

\* case Mode::NEXT_N: if (value > 0)
nextn_test(w) ==
    /\ ~aborted
    /\ wk[w].pc = "n_test"
    /\ wk' = [wk EXCEPT ![w].pc = IF PositiveU32(value[wk[w].eng]) THEN "n_load" ELSE "fwd"]
    /\ UNCHANGED <<engVars, syncVars, prev_cmd, aborted, histVars>>

\* --value: the load
nextn_load(w) ==
    /\ ~aborted
    /\ wk[w].pc = "n_load"
    /\ wk' = [wk EXCEPT ![w].pc = "n_store", ![w].tmp = value[wk[w].eng]]
    /\ UNCHANGED <<engVars, syncVars, prev_cmd, aborted, histVars>>

\* --value: the store; block = true
nextn_store(w) ==
    /\ ~aborted
    /\ wk[w].pc = "n_store"
    /\ value' = [value EXCEPT ![wk[w].eng] = DecU32(wk[w].tmp)]
    /\ quota' = [quota EXCEPT ![wk[w].eng] = @ - 1]
    /\ wk' = [wk EXCEPT ![w].pc = "push", ![w].tmp = 0]
    /\ UNCHANGED <<estate, mode, real, rebound, syncVars, prev_cmd, aborted, out, lastFn, owed, seen>>

\* case Mode::RANDOM: if (dis(gen) < value) block = true, d the number drawn
RandomBlocks(d, v) == LessU32(d, v)
random_decide(w, d) ==
    /\ ~aborted
    /\ wk[w].pc = "r_draw"
    /\ wk' = [wk EXCEPT ![w].pc = IF RandomBlocks(d, value[wk[w].eng]) THEN "push" ELSE "fwd"]
    /\ UNCHANGED <<engVars, syncVars, prev_cmd, aborted, histVars>>

\* (mutant of FirstBlocks: the comparison is inverted)
FirstBlocks_Same(prev, cmd) == prev = cmd
\* case Mode::FIRST: block = prev_cmd != cmd
FirstBlocks(prev, cmd) == prev # cmd
first_read(w) ==
    /\ ~aborted
    /\ wk[w].pc = "f_read"
    /\ wk' = [wk EXCEPT ![w].pc = "f_write",
                        ![w].tmp = IF FirstBlocks(prev_cmd, wk[w].cmd) THEN 1 ELSE 0]
    /\ UNCHANGED <<engVars, syncVars, prev_cmd, aborted, histVars>>

\* prev_cmd = cmd
first_write(w) ==
    /\ ~aborted
    /\ wk[w].pc = "f_write"
    /\ prev_cmd' = wk[w].cmd
    /\ wk' = [wk EXCEPT ![w].pc = IF wk[w].tmp = 1 THEN "push" ELSE "fwd", ![w].tmp = 0]
    /\ UNCHANGED <<engVars, syncVars, aborted, histVars>>

\* if (block): { lock_guard guard(mutex); pending_io_ops.push(cookie); }
push_cookie(w) ==
    /\ ~aborted
    /\ wk[w].pc = "push"
    /\ mutex = 0
    /\ queue' = Append(queue, w)
    /\ out' = [out EXCEPT ![w] = @ + 1]
    /\ wk' = [wk EXCEPT ![w].pc = "signal"]
    /\ seen' = [seen EXCEPT !.pend = Append(@, w), !.withOther = FALSE]
    /\ UNCHANGED <<engVars, npc, mutex, stop, prev_cmd, aborted, quota, lastFn, owed>>

\* condvar.notify_one(): one of the threads waiting, if any, is woken
notify_one(w) ==
    /\ ~aborted
    /\ wk[w].pc = "signal"
    /\ IF \E e \in Engines : npc[e] = "waiting"
       THEN \E e \in Engines :
               /\ npc[e] = "waiting"
               /\ npc' = [npc EXCEPT ![e] = "woken"]
       ELSE UNCHANGED npc
    /\ wk' = [wk EXCEPT ![w].pc = "ret"]
    /\ UNCHANGED <<engVars, mutex, stop, queue, prev_cmd, aborted, histVars>>

\* (mutant of return_ewouldblock: the real engine is called although the
\* answer is EWOULDBLOCK)
return_ewouldblock_CallsReal(w) ==
    /\ ~aborted
    /\ wk[w].pc = "ret"
    /\ wk' = [wk EXCEPT ![w].pc = "blocked", ![w].res = "EWOULDBLOCK"]
    /\ real' = [real EXCEPT ![wk[w].eng] = RealAfter(wk[w].cmd, real[wk[w].eng])]
    /\ lastFn' = [lastFn EXCEPT ![wk[w].eng] = wk[w].cmd]
    /\ seen' = [seen EXCEPT !.lastEng = wk[w].eng]
    /\ UNCHANGED <<estate, mode, value, rebound, syncVars, prev_cmd, aborted, out, quota, owed>>
\* return block; -> return ENGINE_EWOULDBLOCK: the request is suspended
return_ewouldblock(w) ==
    /\ ~aborted
    /\ wk[w].pc = "ret"
    /\ wk' = [wk EXCEPT ![w].pc = "blocked", ![w].res = "EWOULDBLOCK"]
    /\ lastFn' = [lastFn EXCEPT ![wk[w].eng] = wk[w].cmd]
    /\ seen' = [seen EXCEPT !.lastEng = wk[w].eng]
    /\ UNCHANGED <<engVars, syncVars, prev_cmd, aborted, out, quota, owed>>

\* (mutant of RealFn: every wrapper calls the real engine's get)
RealFn_Get(cmd) == "GET"
\* the function of the real engine that the wrapper of cmd calls, with the
\* arguments it was given: allocate -> allocate, remove -> remove, ...
RealFn(cmd) == cmd

\* return block (false) -> return ewb->real_engine-><cmd>(...)
forward(w) ==
    /\ ~aborted
    /\ wk[w].pc = "fwd"
    /\ LET e == wk[w].eng
           c == wk[w].cmd
       IN /\ real' = [real EXCEPT ![e] = RealAfter(RealFn(c), real[e])]
          /\ wk' = [wk EXCEPT ![w] = IdleW(RealResult(RealFn(c), real[e]))]
          /\ lastFn' = [lastFn EXCEPT ![e] = c]
          /\ seen' = [seen EXCEPT !.lastEng = e]
    /\ UNCHANGED <<estate, mode, value, rebound, syncVars, prev_cmd, aborted, out, quota, owed>>

\* (mutant of plain_call: flush and the like go through
\* should_return_EWOULDBLOCK as the interposed functions do)
plain_call_Interposed(w, e, fn) == interposed_call(w, e, fn)
\* flush / release / reset_stats: passed straight to the real engine
plain_call(w, e, fn) ==
    /\ ~aborted
    /\ wk[w].pc = "idle"
    /\ Usable(e)
    /\ real' = [real EXCEPT ![e] = RealAfter(fn, real[e])]
    /\ wk' = [wk EXCEPT ![w] = IdleW(RealResult(fn, real[e]))]
    /\ lastFn' = [lastFn EXCEPT ![e] = fn]
    /\ seen' = [seen EXCEPT !.lastEng = e]
    /\ UNCHANGED <<estate, mode, value, rebound, syncVars, prev_cmd, aborted, out, quota, owed>>

\* EWB_Engine::get_info: return &to_engine(handle)->info.eng_info, the
\* description the constructor filled in; the real engine is not called
get_info(w, e) ==
    /\ ~aborted
    /\ wk[w].pc = "idle"
    /\ Usable(e)
    /\ wk' = [wk EXCEPT ![w] = IdleW("EWB_INFO")]
    /\ lastFn' = [lastFn EXCEPT ![e] = "GET_INFO"]
    /\ seen' = [seen EXCEPT !.lastEng = e]
    /\ UNCHANGED <<engVars, syncVars, prev_cmd, aborted, out, quota, owed>>

\* unknown_command with opcode PROTOCOL_BINARY_CMD_EWOULDBLOCK_CTL: the
\* switch on the packet's mode, and the store to ewb->mode
control_mode(w, e, wire, v) ==
    /\ ~aborted
    /\ wk[w].pc = "idle"
    /\ Usable(e)
    /\ LET m == ModeOfWire(wire) IN
       CASE m \in {"NEXT_N", "RANDOM"} ->
              /\ mode' = [mode EXCEPT ![e] = m]
              /\ wk' = [wk EXCEPT ![w] = [pc |-> "ctl_value", eng |-> e, cmd |-> m,
                                         tmp |-> v, nfy |-> FALSE, res |-> "NONE"]]
              /\ seen' = [seen EXCEPT !.ctl[e] = wire]
              /\ UNCHANGED <<aborted, quota, lastFn>>
         [] m = "FIRST" ->
              /\ mode' = [mode EXCEPT ![e] = m]
              /\ quota' = [quota EXCEPT ![e] = 0]
              /\ wk' = [wk EXCEPT ![w] = IdleW("SUCCESS")]
              /\ lastFn' = [lastFn EXCEPT ![e] = "UNKNOWN_COMMAND"]
              /\ seen' = [seen EXCEPT !.ctl[e] = wire, !.lastEng = e]
              /\ UNCHANGED aborted
         [] OTHER ->
              /\ aborted' = TRUE
              /\ seen' = [seen EXCEPT !.ctl[e] = wire]
              /\ UNCHANGED <<mode, wk, quota, lastFn>>
    /\ UNCHANGED <<estate, value, real, rebound, syncVars, prev_cmd, out, owed>>

\* ewb->value = value; return ENGINE_SUCCESS
control_value(w) ==
    /\ ~aborted
    /\ wk[w].pc = "ctl_value"
    /\ value' = [value EXCEPT ![wk[w].eng] = wk[w].tmp]
    /\ quota' = [quota EXCEPT ![wk[w].eng] = IF wk[w].cmd = "NEXT_N" THEN wk[w].tmp ELSE 0]
    /\ wk' = [wk EXCEPT ![w] = IdleW("SUCCESS")]
    /\ lastFn' = [lastFn EXCEPT ![wk[w].eng] = "UNKNOWN_COMMAND"]
    /\ seen' = [seen EXCEPT !.lastEng = wk[w].eng]
    /\ UNCHANGED <<estate, mode, real, rebound, syncVars, prev_cmd, aborted, out, owed>>

\* EWB_Engine::unknown_command: the control opcode sets the mode, any other
\* opcode is an interposed call
unknown_command(w, e, opcode, wire, v) ==
    IF opcode = PROTOCOL_BINARY_CMD_EWOULDBLOCK_CTL
    THEN control_mode(w, e, wire, v)
    ELSE interposed_call(w, e, "UNKNOWN_COMMAND")

\* --------------------------------------------------------- specifications
\* the instance of the single-instance specifications
Primary == {1}
\* the commands issued
SomeCmds == {"GET", "STORE"}
\* no control command is being executed
NoControl == \A w \in Workers : wk[w].pc # "ctl_value"

\* Spec: one instance, the workers calling it concurrently in the mode a new
\* instance starts in (FIRST); callers may abandon suspended requests.  No
\* wait returns spuriously.
Next ==
    \/ \E e \in Primary : create_instance(e, InterfaceV1)
    \/ \E e \in Primary : initialize(e, "ok")
    \/ \E e \in Primary : destroy(e)
    \/ \E e \in Primary : dtor_notify_all(e)
    \/ \E e \in Primary : dtor_join(e)
    \/ \E e \in Primary : notifier_lock(e)
    \/ \E e \in Primary : notifier_test(e)
    \/ \E e \in Primary : notifier_wait(e)
    \/ \E e \in Primary : notifier_process(e)
    \/ \E w \in Workers, e \in Primary, c \in SomeCmds : interposed_call(w, e, c)
    \/ \E w \in Workers, e \in Primary : plain_call(w, e, "FLUSH")
    \/ \E w \in Workers : retry_call(w)
    \/ \E w \in Workers : abandon(w)
    \/ \E w \in Workers : first_read(w)
    \/ \E w \in Workers : first_write(w)
    \/ \E w \in Workers : push_cookie(w)
    \/ \E w \in Workers : notify_one(w)
    \/ \E w \in Workers : return_ewouldblock(w)
    \/ \E w \in Workers : forward(w)

Spec == Init /\ [][Next]_vars

\* MultiSpec: several instances, each with its notifier thread, on the shared
\* queue, mutex and condition variable; every caller retries once notified.
MultiNext ==
    \/ \E e \in Engines : create_instance(e, InterfaceV1)
    \/ \E e \in Engines : initialize(e, "ok")
    \/ \E e \in Engines : destroy(e)
    \/ \E e \in Engines : dtor_notify_all(e)
    \/ \E e \in Engines : dtor_join(e)
    \/ \E e \in Engines : notifier_lock(e)
    \/ \E e \in Engines : notifier_test(e)
    \/ \E e \in Engines : notifier_wait(e)
    \/ \E e \in Engines : notifier_process(e)
    \/ \E e \in Engines : spurious_wakeup(e)
    \/ \E w \in Workers, e \in Engines, c \in SomeCmds : interposed_call(w, e, c)
    \/ \E w \in Workers : retry_call(w)
    \/ \E w \in Workers : first_read(w)
    \/ \E w \in Workers : first_write(w)
    \/ \E w \in Workers : push_cookie(w)
    \/ \E w \in Workers : notify_one(w)
    \/ \E w \in Workers : return_ewouldblock(w)
    \/ \E w \in Workers : forward(w)

MultiSpec == Init /\ [][MultiNext]_vars

\* FairSpec: one instance under fair scheduling.  Every thread that can take a
\* step eventually takes it: the notifier, a worker inside a call, a caller
\* that was notified (it retries), the destructor.  A step that needs the
\* mutex is taken if the mutex is free again and again (strong fairness).
\* Nothing obliges a caller to start a request or an instance to be created
\* or destroyed; no wait returns spuriously.
FairNext ==
    \/ \E e \in Primary : create_instance(e, InterfaceV1)
    \/ \E e \in Primary : initialize(e, "ok")
    \/ \E e \in Primary : destroy(e)
    \/ \E e \in Primary : dtor_notify_all(e)
    \/ \E e \in Primary : dtor_join(e)
    \/ \E e \in Primary : notifier_lock(e)
    \/ \E e \in Primary : notifier_test(e)
    \/ \E e \in Primary : notifier_wait(e)
    \/ \E e \in Primary : notifier_process(e)
    \/ \E w \in Workers, e \in Primary, c \in SomeCmds : interposed_call(w, e, c)
    \/ \E w \in Workers : retry_call(w)
    \/ \E w \in Workers : first_read(w)
    \/ \E w \in Workers : first_write(w)
    \/ \E w \in Workers : push_cookie(w)
    \/ \E w \in Workers : notify_one(w)
    \/ \E w \in Workers : return_ewouldblock(w)
    \/ \E w \in Workers : forward(w)

FairSpec ==
    /\ Init
    /\ [][FairNext]_vars
    /\ \A e \in Primary : SF_vars(notifier_lock(e)) /\ SF_vars(notifier_process(e))
    /\ \A e \in Primary : WF_vars(notifier_test(e)) /\ WF_vars(notifier_wait(e))
    /\ \A e \in Primary : WF_vars(dtor_notify_all(e)) /\ WF_vars(dtor_join(e))
    /\ \A w \in Workers : SF_vars(push_cookie(w)) /\ WF_vars(retry_call(w))
    /\ \A w \in Workers : WF_vars(first_read(w)) /\ WF_vars(first_write(w)) /\ WF_vars(forward(w))
    /\ \A w \in Workers : WF_vars(notify_one(w)) /\ WF_vars(return_ewouldblock(w))

\* NextNSpec: one instance in NEXT_N mode, the workers calling it concurrently.
\* A control command is sent while no call is in progress, and no call starts
\* while it is executed.
NextNNext ==
    \/ \E e \in Primary : create_instance(e, InterfaceV1)
    \/ \E e \in Primary : initialize(e, "ok")
    \/ \E e \in Primary : notifier_lock(e)
    \/ \E e \in Primary : notifier_test(e)
    \/ \E e \in Primary : notifier_wait(e)
    \/ \E e \in Primary : notifier_process(e)
    \/ \E w \in Workers, e \in Primary, v \in 0..MaxN :
          NoneInCall /\ unknown_command(w, e, PROTOCOL_BINARY_CMD_EWOULDBLOCK_CTL, 0, v)
    \/ \E w \in Workers : control_value(w)
    \/ \E w \in Workers, e \in Primary : NoControl /\ mode[e] = "NEXT_N" /\ interposed_call(w, e, "GET")
    \/ \E w \in Workers : NoControl /\ retry_call(w)
    \/ \E w \in Workers : nextn_test(w)
    \/ \E w \in Workers : nextn_load(w)
    \/ \E w \in Workers : nextn_store(w)
    \/ \E w \in Workers : push_cookie(w)
    \/ \E w \in Workers : notify_one(w)
    \/ \E w \in Workers : return_ewouldblock(w)
    \/ \E w \in Workers : forward(w)

NextNSpec == Init /\ [][NextNNext]_vars

\* SeqSpec: one instance, its functions called one at a time (a call starts
\* when no other is in progress), in the modes FIRST and NEXT_N.
SeqCmds == {"GET", "STORE", "UNKNOWN_COMMAND"}
SeqPlain == {"FLUSH", "RELEASE", "RESET_STATS"}
SeqNext ==
    \/ \E e \in Primary : create_instance(e, InterfaceV1)
    \/ \E e \in Primary : initialize(e, "ok")
    \/ \E e \in Primary : notifier_lock(e)
    \/ \E e \in Primary : notifier_test(e)
    \/ \E e \in Primary : notifier_wait(e)
    \/ \E e \in Primary : notifier_process(e)
    \/ \E w \in Workers, e \in Primary, wire \in {0, 2}, v \in 0..MaxN :
          NoneInCall /\ unknown_command(w, e, PROTOCOL_BINARY_CMD_EWOULDBLOCK_CTL, wire, v)
    \/ \E w \in Workers : control_value(w)
    \/ \E w \in Workers, e \in Primary, c \in SeqCmds : NoneInCall /\ interposed_call(w, e, c)
    \/ \E w \in Workers, e \in Primary, f \in SeqPlain : NoneInCall /\ plain_call(w, e, f)
    \/ \E w \in Workers, e \in Primary : NoneInCall /\ get_info(w, e)
    \/ \E w \in Workers : NoneInCall /\ retry_call(w)
    \/ \E w \in Workers : nextn_test(w)
    \/ \E w \in Workers : nextn_load(w)
    \/ \E w \in Workers : nextn_store(w)
    \/ \E w \in Workers : first_read(w)
    \/ \E w \in Workers : first_write(w)
    \/ \E w \in Workers : push_cookie(w)
    \/ \E w \in Workers : notify_one(w)
    \/ \E w \in Workers : return_ewouldblock(w)
    \/ \E w \in Workers : forward(w)

SeqSpec == Init /\ [][SeqNext]_vars

\* RandomSpec: one instance in RANDOM mode, one caller; the control command
\* carries any percentage, the generator draws any number.
RandomValues == 0..(DrawHi + 1)
RandomNext ==
    \/ \E e \in Primary : create_instance(e, InterfaceV1)
    \/ \E e \in Primary : initialize(e, "ok")
    \/ \E e \in Primary : notifier_lock(e)
    \/ \E e \in Primary : notifier_test(e)
    \/ \E e \in Primary : notifier_wait(e)
    \/ \E e \in Primary : notifier_process(e)
    \/ \E e \in Primary, v \in RandomValues :
          NoneInCall /\ unknown_command(1, e, PROTOCOL_BINARY_CMD_EWOULDBLOCK_CTL, 1, v)
    \/ control_value(1)
    \/ \E e \in Primary : mode[e] = "RANDOM" /\ interposed_call(1, e, "GET")
    \/ retry_call(1)
    \/ \E d \in Draws : random_decide(1, d)
    \/ push_cookie(1)
    \/ notify_one(1)
    \/ return_ewouldblock(1)
    \/ forward(1)

RandomSpec == Init /\ [][RandomNext]_vars

\* MultiSeqSpec: several instances, all in FIRST mode, their functions called
\* one at a time (a call starts when no other is in progress, on any instance).
MultiSeqNext ==
    \/ \E e \in Engines : create_instance(e, InterfaceV1)
    \/ \E e \in Engines : initialize(e, "ok")
    \/ \E e \in Engines : notifier_lock(e)
    \/ \E e \in Engines : notifier_test(e)
    \/ \E e \in Engines : notifier_wait(e)
    \/ \E e \in Engines : notifier_process(e)
    \/ \E w \in Workers, e \in Engines, c \in SomeCmds : NoneInCall /\ interposed_call(w, e, c)
    \/ \E w \in Workers : NoneInCall /\ retry_call(w)
    \/ \E w \in Workers : first_read(w)
    \/ \E w \in Workers : first_write(w)
    \/ \E w \in Workers : push_cookie(w)
    \/ \E w \in Workers : notify_one(w)
    \/ \E w \in Workers : return_ewouldblock(w)
    \/ \E w \in Workers : forward(w)

MultiSeqSpec == Init /\ [][MultiSeqNext]_vars

\* LifeSpec: the life of the instances: create_instance with any interface
\* version, initialize with every outcome of loading and initializing the real
\* engine, calls of one worker in FIRST mode, destroy.
LifeNext ==
    \/ \E e \in Engines, i \in 0..MaxIface : create_instance(e, i)
    \/ \E e \in Engines, o \in InitOutcomes : initialize(e, o)
    \/ \E e \in Engines : destroy(e)
    \/ \E e \in Engines : dtor_notify_all(e)
    \/ \E e \in Engines : dtor_join(e)
    \/ \E e \in Engines : notifier_lock(e)
    \/ \E e \in Engines : notifier_test(e)
    \/ \E e \in Engines : notifier_wait(e)
    \/ \E e \in Engines : notifier_process(e)
    \/ \E e \in Engines : interposed_call(1, e, "GET")
    \/ retry_call(1)
    \/ first_read(1)
    \/ first_write(1)
    \/ push_cookie(1)
    \/ notify_one(1)
    \/ return_ewouldblock(1)
    \/ forward(1)

LifeSpec == Init /\ [][LifeNext]_vars

\* ModeSpec: one instance, its functions called one at a time, with control
\* packets of every mode number: all three modes, and the mode numbers that
\* are no mode.
ModeNext ==
    \/ \E e \in Primary : create_instance(e, InterfaceV1)
    \/ \E e \in Primary : initialize(e, "ok")
    \/ \E e \in Primary : notifier_lock(e)
    \/ \E e \in Primary : notifier_test(e)
    \/ \E e \in Primary : notifier_wait(e)
    \/ \E e \in Primary : notifier_process(e)
    \/ \E w \in Workers, e \in Primary, wire \in 0..MaxWire, v \in 0..MaxN :
          NoneInCall /\ unknown_command(w, e, PROTOCOL_BINARY_CMD_EWOULDBLOCK_CTL, wire, v)
    \/ \E w \in Workers : control_value(w)
    \/ \E w \in Workers, e \in Primary, c \in SomeCmds : NoneInCall /\ interposed_call(w, e, c)
    \/ \E w \in Workers, e \in Primary : NoneInCall /\ plain_call(w, e, "FLUSH")
    \/ \E w \in Workers : NoneInCall /\ retry_call(w)
    \/ \E w \in Workers : nextn_test(w)
    \/ \E w \in Workers : nextn_load(w)
    \/ \E w \in Workers : nextn_store(w)
    \/ \E w \in Workers, d \in Draws : random_decide(w, d)
    \/ \E w \in Workers : first_read(w)
    \/ \E w \in Workers : first_write(w)
    \/ \E w \in Workers : push_cookie(w)
    \/ \E w \in Workers : notify_one(w)
    \/ \E w \in Workers : return_ewouldblock(w)
    \/ \E w \in Workers : forward(w)

ModeSpec == Init /\ [][ModeNext]_vars

\* ------------------------------------------------------------------ claims
\* a notifier thread that has been started and has not ended
NotifierRuns(e) == npc[e] \notin {"none", "done"}

\* C1: a cookie answered with EWOULDBLOCK (an entry of it is outstanding) is
\* eventually notified, unless an instance is being destroyed or the process
\* has aborted.  Under FairSpec a cookie has at most one outstanding entry.
C1_EventuallyNotified ==
    \A c \in Workers : (out[c] > 0) ~> (out[c] = 0 \/ stop \/ aborted)

\* C2: for every cookie, the notify_io_complete calls made for it never exceed
\* the calls with that cookie answered with EWOULDBLOCK (counted from the
\* push that commits the call to that answer); each notify call takes exactly
\* one entry off the queue, so no entry is notified twice and no cookie is
\* notified that was not enqueued, also with several notifier threads.
C2_NotifyOncePerEnqueue ==
    \A c \in Workers : out[c] >= 0 /\ out[c] = Count(c, queue)

\* C2 witness: both instances run their notifier, and both cookies have been
\* enqueued and notified (every entry pushed has been taken off the queue).
C2_Witness ==
    /\ \A e \in Engines : NotifierRuns(e)
    /\ \A w \in Workers : wk[w].pc = "blocked" /\ wk[w].nfy
    /\ queue = << >>

\* C3: while a call that has enqueued its cookie has not yet returned
\* EWOULDBLOCK to its caller, the entry it enqueued has not been notified.
C3_NotifyAfterReturn ==
    \A c \in Workers : wk[c].pc \in {"signal", "ret"} => out[c] >= 1

\* C4: in FIRST mode a caller that issues its call again after each
\* notification (a suspended caller of FairSpec does nothing else) has the
\* call passed to the real engine at some point.
C4_RetryEventuallyPasses ==
    \A w \in Workers : ([]<>(wk[w].pc = "f_read")) => <>(wk[w].pc = "fwd")

\* C5: in FIRST mode a call is answered with EWOULDBLOCK exactly if the
\* function called before it on the instance was another one.  At "f_write"
\* the call has taken its decision (tmp = 1: block) and has not returned.
C5_FirstBlocksIffOtherFunction ==
    \A w \in Workers :
        wk[w].pc = "f_write" => ((wk[w].tmp = 1) <=> (lastFn[wk[w].eng] # wk[w].cmd))

\* C6: with the calls made one at a time, after a control command selected
\* NEXT_N with value N the counter is N minus the calls answered with
\* EWOULDBLOCK since, never below zero (no more than N block), and a call is
\* passed to the real engine only once N calls have blocked.
C6_NextNSequential ==
    \A e \in Engines :
        (mode[e] = "NEXT_N" /\ NoControl) =>
            /\ quota[e] >= 0
            /\ value[e] = quota[e]
            /\ \A w \in Workers : (wk[w].eng = e /\ wk[w].pc = "fwd") => quota[e] = 0

\* C6 witness: NEXT_N was selected with N > 0 on an instance never called in
\* FIRST mode; one call was answered with EWOULDBLOCK, N is used up and a
\* later call is being passed to the real engine.
C6_Witness ==
    \E w \in Workers, b \in Workers :
        /\ wk[w].pc = "fwd" /\ mode[wk[w].eng] = "NEXT_N" /\ quota[wk[w].eng] = 0
        /\ prev_cmd = "NONE"
        /\ wk[b].pc = "blocked" /\ wk[b].res = "EWOULDBLOCK"

\* C7: with the workers calling concurrently, no more than the selected N
\* calls are answered with EWOULDBLOCK and the counter never goes below zero
\* (a negative value stands for the wrapped 2^32 - 1 and below).
C7_NextNConcurrent ==
    \A e \in Engines : quota[e] >= 0 /\ value[e] >= 0

\* C8: in RANDOM mode with a percentage in 1..100, exactly that many of the
\* hundred draws make a call return EWOULDBLOCK.
C8_RandomPercentage ==
    \A e \in Engines :
        (mode[e] = "RANDOM" /\ NoControl /\ value[e] \in Draws) =>
            Cardinality({d \in Draws : RandomBlocks(d, value[e])}) = value[e]

\* C9: once the destructor has set the stop flag and called notify_all, the
\* notifier thread ends and the join returns.
C9_DestroyTerminates ==
    \A e \in Engines : (estate[e] = "d_join") ~> (estate[e] = "dead")

\* C10: when the notifier thread of an instance being destroyed has ended,
\* every cookie that was in the queue when destroy began has been notified.
C10_PendingNotifiedAtExit ==
    \A e \in Engines :
        (estate[e] \in {"d_notify", "d_join", "dead"} /\ npc[e] = "done") => owed[e] = 0

\* C11: the notifier thread of an instance ends only when that instance is
\* destroyed: while an instance exists and is not being destroyed (whether
\* another instance was destroyed before or after it was created), its
\* notifier thread has not left its loop.
C11_NotifierOwnedByInstance ==
    \A e \in Engines :
        estate[e] \in {"created", "live", "initfail"} => npc[e] # "done"

\* C12: the previous-command state of FIRST mode is shared by all instances:
\* when the function that returned last was f, called in FIRST mode on another
\* instance, a call of f on this instance is passed through (tmp = 0 at
\* "f_write": not blocked).
C12_SharedPrevCmd ==
    \A w \in Workers :
        ( /\ wk[w].pc = "f_write"
          /\ seen.lastEng \in Engines \ {wk[w].eng}
          /\ lastFn[seen.lastEng] = wk[w].cmd ) => wk[w].tmp = 0

\* C12 witness: the first call ever made on an instance is a call of f that
\* directly follows a call of f on the other instance, and it is not blocked.
C12_Witness ==
    \E w \in Workers :
        /\ wk[w].pc = "f_write" /\ wk[w].tmp = 0
        /\ seen.lastEng \in Engines \ {wk[w].eng}
        /\ lastFn[seen.lastEng] = wk[w].cmd
        /\ lastFn[wk[w].eng] = "INITIALIZE"

\* C13: in FIRST mode the first call made on an instance (no function has
\* returned on it since initialize) is answered with EWOULDBLOCK, whatever was
\* called on other instances.
C13_FirstCallOnInstanceBlocks ==
    \A w \in Workers :
        (wk[w].pc = "f_write" /\ lastFn[wk[w].eng] = "INITIALIZE") => wk[w].tmp = 1

\* C14: a call of an interposed function ends in one of two ways: answered
\* with EWOULDBLOCK, the real engine untouched by that step; or with exactly
\* the status the real engine gives for that function on its present state,
\* the real engine's state becoming what that function makes of it.  The real
\* engine's state changes in no other step of a call (it changes besides only
\* by flush and destroy), so the calls not answered with EWOULDBLOCK act on it
\* as they would on the real engine alone.
C14_ForwardedAsRealEngine ==
    [][ /\ \A w \in Workers :
              (wk[w].pc \in {"ret", "fwd"} /\ wk'[w].pc \in {"idle", "blocked"}) =>
                  LET e == wk[w].eng
                      c == wk[w].cmd
                  IN \/ /\ wk'[w].pc = "blocked"
                        /\ wk'[w].res = "EWOULDBLOCK"
                        /\ real' = real
                     \/ /\ wk'[w].pc = "idle"
                        /\ wk'[w].res = RealResult(c, real[e])
                        /\ real' = [real EXCEPT ![e] = RealAfter(c, real[e])]
        /\ \A e \in Engines :
              real'[e] # real[e] =>
                  \/ \E w \in Workers : wk[w].pc = "fwd" /\ wk[w].eng = e /\ wk'[w].pc = "idle"
                  \/ lastFn'[e] \in {"FLUSH", "DESTROY"}
      ]_vars

\* C14 witness: a store was passed to the real engine, which now holds the
\* item, while another call is suspended on its EWOULDBLOCK answer.
C14_Witness ==
    \E w \in Workers, b \in Workers :
        /\ wk[w].pc = "idle" /\ wk[w].res = "SUCCESS"
        /\ \E e \in Engines : lastFn[e] = "STORE" /\ real[e]
        /\ wk[b].pc = "blocked" /\ wk[b].res = "EWOULDBLOCK"

\* the functions that are not interposed
PlainFns == SeqPlain \cup {"GET_INFO"}

\* the step is a call, on instance e, of a function that is not interposed
\* (such a call is one step: it starts and returns)
PlainStep(e) ==
    /\ lastFn'[e] \in PlainFns /\ seen'.lastEng = e
    /\ npc' = npc
    /\ \A w \in Workers : wk'[w] # wk[w] => (wk[w].pc = "idle" /\ wk'[w].pc = "idle")
    /\ <<wk, lastFn, seen, real>>' # <<wk, lastFn, seen, real>>

\* the worker that made the call of the step: the one whose record changed,
\* or, when none did, one whose last result already was what it got again
PlainCallers ==
    IF wk' = wk THEN {w \in Workers : wk[w].pc = "idle"}
                ELSE {w \in Workers : wk'[w] # wk[w]}

\* what no call of a function that is not interposed does: enqueue, wake the
\* notifier, change mode, value or the previous command
PlainFrame == UNCHANGED <<mode, value, prev_cmd, queue, out, stop, mutex>>

\* C15 as stated: flush, release, reset_stats and get_info are never answered
\* with EWOULDBLOCK, enqueue nothing, leave mode, value and the previous
\* command unchanged, and each forwards to the real engine and returns the
\* real engine's result.
C15_PlainForwarded ==
    [][\A e \in Engines :
          PlainStep(e) =>
              /\ PlainFrame
              /\ \E w \in PlainCallers : wk'[w].res = RealResult(lastFn'[e], real[e])
              /\ real' = [real EXCEPT ![e] = RealAfter(lastFn'[e], real[e])]
      ]_vars

\* C15 amended: flush, release and reset_stats are never answered with
\* EWOULDBLOCK, enqueue nothing, leave mode, value and the previous command
\* unchanged, forward to the real engine and return its result; get_info
\* changes and enqueues nothing either, but returns the engine's own
\* description without calling the real engine.  None of them ever is inside
\* should_return_EWOULDBLOCK or becomes the previous command.
C15_PlainNeverInterposed ==
    /\ [](prev_cmd \notin PlainFns /\ \A w \in Workers : wk[w].cmd \notin PlainFns)
    /\ [][\A e \in Engines :
             PlainStep(e) =>
                 /\ PlainFrame
                 /\ IF lastFn'[e] = "GET_INFO"
                    THEN /\ \E w \in PlainCallers : wk'[w].res = "EWB_INFO"
                         /\ real' = real
                    ELSE /\ \E w \in PlainCallers :
                               /\ wk'[w].res = RealResult(lastFn'[e], real[e])
                               /\ wk'[w].res # "EWOULDBLOCK"
                         /\ real' = [real EXCEPT ![e] = RealAfter(lastFn'[e], real[e])]
         ]_vars

\* C15 witness: in NEXT_N mode with calls still to be blocked and a cookie in
\* the queue, a flush was the last call made (none is in progress): it has
\* emptied the real engine and returned its status.
C15_Witness ==
    \E w \in Workers, e \in Engines :
        /\ lastFn[e] = "FLUSH" /\ seen.lastEng = e /\ NoneInCall
        /\ wk[w].pc = "idle" /\ wk[w].res = "SUCCESS"
        /\ mode[e] = "NEXT_N" /\ value[e] > 0
        /\ queue # << >>
        /\ ~real[e]

\* C16: create_instance with an interface version other than 1 answers
\* ENGINE_ENOTSUP: no handle is written (no instance exists in the slot) and
\* no notifier thread was started; with version 1 the instance it returns is
\* in mode FIRST with value 0 and its notifier thread has been started.
C16_CreateInstance ==
    \A e \in Engines :
        /\ seen.iface[e] = 0 - 1 => (estate[e] = "none" /\ npc[e] = "none")
        /\ seen.iface[e] \in (0..MaxIface) \ {InterfaceV1} =>
               (estate[e] = "enotsup" /\ npc[e] = "none" /\ mode[e] = "FIRST" /\ value[e] = 0)
        /\ seen.iface[e] = InterfaceV1 => (estate[e] \notin {"none", "enotsup"} /\ npc[e] # "none")
        /\ estate[e] = "created" =>
               (mode[e] = "FIRST" /\ value[e] = 0 /\ ~rebound[e] /\ npc[e] # "none")

\* C16 witness: one create_instance was refused for its interface version
\* while another returned an instance whose notifier thread is running.
C16_Witness ==
    \E a \in Engines, b \in Engines :
        /\ estate[a] = "enotsup" /\ seen.iface[a] = MaxIface
        /\ estate[b] = "created" /\ npc[b] = "waiting"

\* C17: initialize aborts exactly when the real engine cannot be loaded,
\* cannot be instantiated or has not interface version 1; otherwise it
\* returns what the real engine's initialize returned (an error leaves the
\* instance uninitialized), and the five entries of the handle are rebound to
\* the real engine exactly when that was ENGINE_SUCCESS.
C17_Initialize ==
    /\ aborted <=> \E e \in Engines : seen.init[e] \in {"load_fail", "create_fail", "bad_interface"}
    /\ \A e \in Engines :
          /\ rebound[e] <=> seen.init[e] = "ok"
          /\ estate[e] = "live" => seen.init[e] = "ok"
          /\ estate[e] = "initfail" => seen.init[e] = "init_error"
          /\ seen.init[e] = "ok" => estate[e] \notin {"none", "enotsup", "created", "initfail"}
          /\ seen.init[e] = "init_error" => estate[e] \notin {"none", "enotsup", "created", "live"}

\* C17 witness: the real engine of one instance returned an error from
\* initialize (nothing rebound), that of another ENGINE_SUCCESS (rebound).
C17_Witness ==
    \E a \in Engines, b \in Engines :
        /\ estate[a] = "initfail" /\ ~rebound[a]
        /\ estate[b] = "live" /\ rebound[b]

\* the positions of a call inside should_return_EWOULDBLOCK and up to the
\* return of ENGINE_EWOULDBLOCK
EwbPcs == {"n_test", "n_load", "n_store", "r_draw", "f_read", "f_write", "push", "signal", "ret"}

\* C18: a call answered with EWOULDBLOCK does not call the real engine: no
\* step of a call before its "fwd" position changes the real engine's state
\* (nor the mode); value changes only by the NEXT_N decrement, the
\* previous command only by the FIRST-mode assignment, and the queue only by
\* the push of the caller's cookie, which every call that returns EWOULDBLOCK
\* has made exactly once (push, then notify_one, then the return).
C18_BlockedCallFrame ==
    [][\A w \in Workers :
          (wk[w].pc \in EwbPcs /\ wk'[w].pc # wk[w].pc) =>
              LET e == wk[w].eng IN
              /\ UNCHANGED <<real, mode, estate, rebound>>
              /\ value' # value =>
                     /\ wk[w].pc = "n_store"
                     /\ \A x \in Engines \ {e} : value'[x] = value[x]
              /\ prev_cmd' # prev_cmd =>
                     (wk[w].pc = "f_write" /\ prev_cmd' = wk[w].cmd)
              /\ queue' # queue => (wk[w].pc = "push" /\ queue' = Append(queue, w))
              /\ wk'[w].pc = "push" => wk[w].pc \in {"n_store", "r_draw", "f_write"}
              /\ wk'[w].pc = "signal" => (wk[w].pc = "push" /\ queue' = Append(queue, w))
              /\ wk'[w].pc = "ret" => (wk[w].pc = "signal" /\ queue' = queue)
              /\ wk'[w].pc = "blocked" =>
                     (wk[w].pc = "ret" /\ wk'[w].res = "EWOULDBLOCK" /\ queue' = queue)
      ]_vars

\* C18 witness: a store was answered with EWOULDBLOCK in NEXT_N mode: the
\* counter went from the selected N to N - 1, and the real engine holds no
\* item.
C18_Witness ==
    \E w \in Workers :
        /\ wk[w].pc = "blocked" /\ wk[w].res = "EWOULDBLOCK" /\ wk[w].cmd = "STORE"
        /\ mode[wk[w].eng] = "NEXT_N" /\ value[wk[w].eng] = MaxN - 1
        /\ ~real[wk[w].eng]
        /\ lastFn[wk[w].eng] = "STORE" /\ NoneInCall

\* C19: a control packet is never answered with EWOULDBLOCK and enqueues
\* nothing.  The mode of an instance is the one its last control packet named
\* (0 NEXT_N, 1 RANDOM, 2 FIRST; FIRST before any packet), and a packet naming
\* no mode aborts; NEXT_N and RANDOM store the packet's value and return
\* ENGINE_SUCCESS, FIRST leaves value as it is; no step of a control command
\* changes the previous command, the real engine or the queue.
C19_ControlCommand ==
    /\ [](\A e \in Engines :
             /\ seen.ctl[e] = 0 - 1 => mode[e] = "FIRST"
             /\ seen.ctl[e] = 0 => mode[e] = "NEXT_N"
             /\ seen.ctl[e] = 1 => mode[e] = "RANDOM"
             /\ seen.ctl[e] = 2 => mode[e] = "FIRST"
             /\ seen.ctl[e] > 2 => aborted)
    /\ [](aborted => \E e \in Engines : seen.ctl[e] > 2)
    /\ [][ /\ (seen'.ctl # seen.ctl \/ mode' # mode) =>
                  UNCHANGED <<value, prev_cmd, real, queue, out, npc>>
           /\ \A w \in Workers :
                 /\ (wk[w].pc # "ctl_value" /\ wk'[w].pc = "ctl_value") =>
                        /\ wk[w].pc = "idle"
                        /\ mode'[wk'[w].eng] \in {"NEXT_N", "RANDOM"}
                        /\ UNCHANGED <<value, prev_cmd, real, queue, out, npc>>
                 /\ (wk[w].pc = "ctl_value" /\ wk'[w].pc # "ctl_value") =>
                        /\ wk'[w].pc = "idle" /\ wk'[w].res = "SUCCESS"
                        /\ value' = [value EXCEPT ![wk[w].eng] = wk[w].tmp]
                        /\ UNCHANGED <<mode, prev_cmd, real, queue, out, npc>>
           /\ (mode' # mode /\ \A w \in Workers : wk'[w].pc # "ctl_value") =>
                  /\ mode'[seen'.lastEng] = "FIRST"
                  /\ \E w \in PlainCallers : wk'[w].pc = "idle" /\ wk'[w].res = "SUCCESS"
         ]_vars

\* C19 witness: a control packet selected FIRST after one had selected NEXT_N
\* with the largest value: the value is still there, as is the previous
\* command of an earlier FIRST-mode call.
C19_Witness ==
    \E e \in Engines :
        /\ seen.ctl[e] = 2 /\ mode[e] = "FIRST" /\ value[e] = MaxN
        /\ lastFn[e] = "UNKNOWN_COMMAND" /\ NoneInCall
        /\ prev_cmd = "GET"

\* C20: the mode of an instance changes only in a step of a control command;
\* its value changes only by the store of a NEXT_N or RANDOM control command
\* or by the decrement of a NEXT_N call that goes on to return EWOULDBLOCK,
\* and every such decrement takes exactly one off the value.
C20_ModeValueFrame ==
    [][\A e \in Engines :
          /\ mode'[e] # mode[e] => seen'.ctl[e] # seen.ctl[e]
          /\ value'[e] # value[e] =>
                 \/ \E w \in Workers :
                       /\ wk[w].pc = "ctl_value" /\ wk[w].eng = e /\ wk'[w].pc = "idle"
                       /\ value'[e] = wk[w].tmp
                 \/ \E w \in Workers :
                       /\ wk[w].pc = "n_store" /\ wk[w].eng = e /\ wk'[w].pc = "push"
                       /\ mode[e] = "NEXT_N"
          /\ \A w \in Workers :
                 (wk[w].pc = "n_store" /\ wk[w].eng = e /\ wk'[w].pc = "push") =>
                     value'[e] = value[e] - 1
      ]_vars

\* C21: whenever a notifier thread is blocked in condvar.wait with no wakeup
\* outstanding for it (it has not been woken, and no caller stands between
\* its push and its notify_one), the pending queue is empty.
C21_WaitingImpliesEmpty ==
    \A e \in Engines :
        (npc[e] = "waiting" /\ \A w \in Workers : wk[w].pc # "signal") => queue = << >>

\* C22: with one instance, cookies are notified in the order of their
\* enqueues: every notify_io_complete is for the cookie whose enqueue is the
\* oldest among those not yet notified.
C22_FifoNotification ==
    [][\A c \in Workers :
          out'[c] < out[c] =>
              /\ seen.pend # << >>
              /\ c = Head(seen.pend)
              /\ seen'.pend = Tail(seen.pend)
      ]_vars

\* C22 witness: cookie 2 was enqueued while cookie 1 was pending, cookie 1
\* has been notified, and cookie 2 is still queued.
C22_Witness ==
    /\ seen.withOther
    /\ estate[1] = "live" /\ \A e \in Engines \ {1} : estate[e] = "none"
    /\ queue = <<2>> /\ seen.pend = <<2>>
    /\ wk[1].pc = "blocked" /\ wk[1].nfy /\ out[1] = 0
    /\ wk[2].pc = "blocked" /\ ~wk[2].nfy /\ out[2] = 1

====
